---- MODULE Spec2Model ----
(***************************************************************************)
(* Model of the aggregation and statistics core of the sentiment and       *)
(* emotion analyzers (src/src/analysis/sentiment.py, emotion.py).          *)
(*                                                                         *)
(* Units.  A stored score is an integer number of 1e-4 (4 decimals); a raw *)
(* classifier score is an integer number of 1e-5, so that round(x, 4) is a *)
(* real conversion; a percentage is an integer number of 1e-2 percent.     *)
(* A Python dict is a function whose DOMAIN is its key set; a text is a    *)
(* sequence of one-character strings.                                      *)
(***************************************************************************)
EXTENDS Integers, Sequences, FiniteSets, TLC

VARIABLES analyzer,           \* which analyzer object runs: "sentiment" / "emotion"
          fields_arg,         \* the `fields` argument of analyze_articles
          articles,           \* the `articles` argument (input records)
          fields,             \* the effective list of requested fields
          idx,                \* position of the outer loop (record being analyzed)
          analyzed_articles,  \* the output list
          calls,              \* log of the analyze_text calls made so far
          stats,              \* the value returned by get_*_statistics
          pc,                 \* control point
          passes,             \* how many analyze_articles calls the caller has started
          call,               \* log of the direct analyze_text calls
          texts,              \* the `texts` argument of analyze_batch
          batch_size,         \* the `batch_size` argument of analyze_batch
          model_fn,           \* a deterministic classifier: cleaned text -> output
          results,            \* the `results` list of analyze_batch
          chunks,             \* log of the classifier calls of analyze_batch
          prev,               \* what earlier analyze_batch calls on `texts` returned
          driver,             \* the driver (main function) that runs, if any
          files,              \* the report files on disk
          loggers,            \* the loggers of the logging module, by name
          emitted             \* where the last logged message was written, in order

textVars == <<call, texts, batch_size, model_fn, results, chunks, prev>>

driverVars == <<driver, files>>

logVars == <<loggers, emitted>>

vars == <<analyzer, fields_arg, articles, fields, idx, analyzed_articles, calls, stats, pc,
          passes, textVars, driverVars, logVars>>

----------------------------------------------------------------------------
(* Bounds of the model *)

MaxSlots == 4         \* most (record, requested field) pairs of one run

MaxCalls == 1         \* most direct analyze_text calls of one caller

MaxTexts == 3         \* longest `texts` list given to analyze_batch

MaxPasses == 2        \* most analyze_articles calls chained on one list of records

MaxChained == 1       \* most records of a list that is analyzed more than once

----------------------------------------------------------------------------
(* Program constants *)

MaxLength == 512      \* text[:512]

EMOTIONS == <<"anger", "disgust", "fear", "joy", "neutral", "sadness", "surprise">>

DefaultFields == <<"title", "description">>

Whitespace == {" "}

NoneValue == "None"

----------------------------------------------------------------------------
(* Dictionaries and small helpers *)

EmptyDict == [k \in {} |-> 0]

DictGet(d, k, default) == IF k \in DOMAIN d THEN d[k] ELSE default

DictSet(d, k, v) == [x \in (DOMAIN d) \cup {k} |-> IF x = k THEN v ELSE d[x]]

Range(s) == {s[i] : i \in DOMAIN s}

Abs(x) == IF x < 0 THEN -x ELSE x

RECURSIVE SumSeq(_)
SumSeq(s) == IF s = <<>> THEN 0 ELSE Head(s) + SumSeq(Tail(s))

Count(s, x) == Cardinality({i \in DOMAIN s : s[i] = x})

Perms(S) == {p \in [1..Cardinality(S) -> S] : \A i, j \in DOMAIN p : p[i] = p[j] => i = j}

(* round(num/den, d) expressed on integers: the results nearest to num/den. *)
(* An exact decimal tie is resolved by the binary value of the float, which *)
(* the integers do not carry, so both neighbours are possible results.      *)
RoundSet(num, den) ==
    LET q == num \div den
    IN  {r \in {q, q + 1} : 2 * Abs(r * den - num) <= den}

----------------------------------------------------------------------------
(* Texts *)

Truthy(text) == Len(text) > 0

(* variant of Strip that removes nothing *)
StripNothing(text) == text

(* str.strip() *)
Strip(text) ==
    LET keep == {i \in 1..Len(text) : text[i] \notin Whitespace}
    IN  IF keep = {} THEN <<>>
        ELSE SubSeq(text, CHOOSE i \in keep : \A j \in 1..(i - 1) : text[j] \in Whitespace,
                          CHOOSE i \in keep : \A j \in (i + 1)..Len(text) : text[j] \in Whitespace)

(* variant of Truncate: the last MaxLength characters *)
TruncateTail(text) ==
    SubSeq(text, IF Len(text) < MaxLength THEN 1 ELSE Len(text) - MaxLength + 1, Len(text))

(* text[:512] *)
Truncate(text) == SubSeq(text, 1, IF Len(text) < MaxLength THEN Len(text) ELSE MaxLength)

TextValues == {<<" ">>, <<"a">>}

(* variant of ClassifierInputs: no check for a blank text *)
ClassifierInputsUnguarded(text) == <<Truncate(text)>>

(* variant of ClassifierInputs: a second call of the classifier *)
ClassifierInputsTwice(text) ==
    IF ~Truthy(text) \/ ~Truthy(Strip(text)) THEN <<>> ELSE <<Truncate(text), Truncate(text)>>

(* the texts one analyze_text call passes to self.model, in call order:     *)
(* none for a blank text, else the truncated text, once                     *)
ClassifierInputs(text) ==
    IF ~Truthy(text) \/ ~Truthy(Strip(text)) THEN <<>> ELSE <<Truncate(text)>>

----------------------------------------------------------------------------
(* The external classifiers (self.model): what one call can produce.        *)
(* ok = FALSE is a call that raises.                                        *)

(* sentiment-analysis pipeline: the top prediction, a label and a raw score *)
SentimentOutputs ==
    { [ok |-> TRUE,  label |-> "POSITIVE", score |-> 99996],
      [ok |-> TRUE,  label |-> "NEGATIVE", score |-> 60014],
      [ok |-> FALSE, label |-> "",         score |-> 0] }

PeakOutput(peak, hi, lo) == [e \in Range(EMOTIONS) |-> IF e = peak THEN hi ELSE lo]

(* text-classification pipeline with top_k=None: a raw score per label.     *)
(* The second output lacks five of the labels.                              *)
EmotionOutputs ==
    { [ok |-> TRUE,  scores |-> PeakOutput("fear", 89920, 1680)],
      [ok |-> TRUE,  scores |-> [e \in {"joy", "sadness"} |-> 50000]],
      [ok |-> FALSE, scores |-> EmptyDict] }

----------------------------------------------------------------------------
(* analyze_text.  The result is a set: the possible values of the returned  *)
(* dict, one per way the roundings can fall.                                *)

Round4(raw) == RoundSet(raw, 10)

(* variant of SentimentAnalyzeText: a failure is reported as the placeholder *)
SentimentAnalyzeTextSilent(text, out) ==
    IF ~Truthy(text) \/ ~Truthy(Strip(text))
    THEN {[label |-> "NEUTRAL", score |-> 0]}
    ELSE IF out.ok
         THEN {[label |-> out.label, score |-> s] : s \in Round4(out.score)}
         ELSE {[label |-> "NEUTRAL", score |-> 0]}

SentimentAnalyzeText(text, out) ==
    IF ~Truthy(text) \/ ~Truthy(Strip(text))
    THEN {[label |-> "NEUTRAL", score |-> 0]}
    ELSE IF out.ok
         THEN {[label |-> out.label, score |-> s] : s \in Round4(out.score)}
         ELSE {[label |-> "ERROR", score |-> 0]}

(* variant of ZeroEmotions: the category "neutral" is left out *)
ZeroEmotionsSix == [e \in Range(EMOTIONS) \ {"neutral"} |-> 0]

ZeroEmotions == [e \in Range(EMOTIONS) |-> 0]

(* all dicts d over the key set S with d[k] \in choices[k] *)
RECURSIVE ProductSet(_, _)
ProductSet(S, choices) ==
    IF S = {} THEN {EmptyDict}
    ELSE LET k == CHOOSE x \in S : TRUE
         IN  {DictSet(d, k, v) : d \in ProductSet(S \ {k}, choices), v \in choices[k]}

EmotionAnalyzeText(text, out) ==
    IF ~Truthy(text) \/ ~Truthy(Strip(text))
    THEN {ZeroEmotions}
    ELSE IF out.ok
         THEN ProductSet(DOMAIN out.scores, [l \in DOMAIN out.scores |-> Round4(out.scores[l])])
         ELSE {ZeroEmotions}

----------------------------------------------------------------------------
(* variant of MaxFirst: the first minimal element *)
MinFirst(seq, key) ==
    seq[CHOOSE i \in DOMAIN seq :
            /\ \A j \in DOMAIN seq : key[seq[j]] >= key[seq[i]]
            /\ \A j \in DOMAIN seq : j < i => key[seq[j]] > key[seq[i]]]

(* max(iterable, key=...) returns the first maximal element met.            *)
(* seq is the iteration order, key a function on its elements.              *)
MaxFirst(seq, key) ==
    seq[CHOOSE i \in DOMAIN seq :
            /\ \A j \in DOMAIN seq : key[seq[j]] <= key[seq[i]]
            /\ \A j \in DOMAIN seq : j < i => key[seq[j]] < key[seq[i]]]

RemoveAt(seq, i) == SubSeq(seq, 1, i - 1) \o SubSeq(seq, i + 1, Len(seq))

(* variant of SortedDesc: ascending *)
RECURSIVE SortedAsc(_, _)
SortedAsc(seq, key) ==
    IF seq = <<>> THEN <<>>
    ELSE LET i == CHOOSE i \in DOMAIN seq :
                      /\ \A j \in DOMAIN seq : key[seq[j]] >= key[seq[i]]
                      /\ \A j \in DOMAIN seq : j < i => key[seq[j]] > key[seq[i]]
         IN  <<seq[i]>> \o SortedAsc(RemoveAt(seq, i), key)

(* sorted(items, key=count, reverse=True): descending and stable *)
RECURSIVE SortedDesc(_, _)
SortedDesc(seq, key) ==
    IF seq = <<>> THEN <<>>
    ELSE LET i == CHOOSE i \in DOMAIN seq :
                      /\ \A j \in DOMAIN seq : key[seq[j]] <= key[seq[i]]
                      /\ \A j \in DOMAIN seq : j < i => key[seq[j]] < key[seq[i]]
         IN  <<seq[i]>> \o SortedDesc(RemoveAt(seq, i), key)

RECURSIVE SumOver(_, _)
SumOver(S, f) ==
    IF S = {} THEN 0
    ELSE LET k == CHOOSE x \in S : TRUE IN f[k] + SumOver(S \ {k}, f)

----------------------------------------------------------------------------
(* Inputs *)

Analyzers == {"sentiment", "emotion"}

AnalysisKey == IF analyzer = "sentiment" THEN "sentiment_analysis" ELSE "emotion_analysis"

FieldLists == { <<"title">>, <<"title", "description", "content">>, <<"overall", "title">> }

(* none = TRUE is fields=None *)
FieldArgs == {[none |-> TRUE, names |-> <<>>]} \cup {[none |-> FALSE, names |-> l] : l \in FieldLists}

Requested(arg) == IF arg.none THEN DefaultFields ELSE arg.names

Records(names) == UNION {[K -> TextValues] : K \in SUBSET Range(names)}

ArticleLists(names) ==
    UNION {[1..m -> Records(names)] : m \in {k \in 0..MaxSlots : k * Len(names) <= MaxSlots}}

ReportFiles == {"sentiment_analysis/analyzed_articles.json",
                "emotion_analysis/analyzed_articles.json",
                "combined_analysis/sentiment_emotion_analysis.json",
                "combined_analysis/analysis_summary.txt"}

(* no analyze_text or analyze_batch call of the caller's own *)
NoTexts ==
    /\ call = <<>>
    /\ texts = <<>>
    /\ batch_size = 1
    /\ model_fn = EmptyDict
    /\ results = <<>>
    /\ chunks = <<>>
    /\ prev = <<>>

(* analyze_articles is called by something other than a main function *)
NoDriver ==
    /\ driver = [name |-> "none", input_exists |-> TRUE, phase |-> 1]
    /\ files = [f \in ReportFiles |-> "absent"]

(* utils/logger.py is not imported *)
NoLogging ==
    /\ loggers = EmptyDict
    /\ emitted = <<>>

Init ==
    /\ analyzer \in Analyzers
    /\ fields_arg \in FieldArgs
    /\ articles \in ArticleLists(Requested(fields_arg))
    /\ fields = <<>>
    /\ idx = 0
    /\ analyzed_articles = <<>>
    /\ calls = <<>>
    /\ stats = EmptyDict
    /\ pc = "begin"
    /\ passes = 1
    /\ NoTexts
    /\ NoDriver
    /\ NoLogging

----------------------------------------------------------------------------
(* analyze_articles *)

(* sentiment.py 118-124, emotion.py 86-92 *)
Begin ==
    /\ pc = "begin"
    /\ fields' = (IF fields_arg.none THEN DefaultFields ELSE fields_arg.names)
    /\ analyzed_articles' = <<>>
    /\ idx' = 1
    /\ pc' = IF articles = <<>> THEN "stats" ELSE "loop"
    /\ UNCHANGED <<analyzer, fields_arg, articles, calls, stats, passes, textVars, driverVars, logVars>>

(* one analyze_text call on a text: the classifier's output and each value  *)
(* the call can return                                                      *)
TextRuns(an, text) ==
    LET passed == ClassifierInputs(text)
        run(out, r) == [out |-> (passed = <<>>) \/ out.ok,
                        passed |-> passed,
                        outputs |-> [k \in 1..Len(passed) |-> out],
                        result |-> r]
    IN  IF an = "sentiment"
        THEN UNION {{run(out, r) : r \in SentimentAnalyzeText(text, out)} :
                        out \in SentimentOutputs}
        ELSE UNION {{run(out, r) : r \in EmotionAnalyzeText(text, out)} :
                        out \in EmotionOutputs}

(* variant of FieldLoop: analyze_text is called on blank texts too *)
RECURSIVE FieldLoopUnfiltered(_, _, _, _, _)
FieldLoopUnfiltered(an, rec, article, flds, n) ==
    IF n = 0 THEN {[sub |-> EmptyDict, log |-> <<>>]}
    ELSE LET field == flds[n]
             text == DictGet(article, field, <<>>)
             before == FieldLoopUnfiltered(an, rec, article, flds, n - 1)
         IN  {[sub |-> DictSet(b.sub, field, run.result),
               log |-> Append(b.log, [rec |-> rec, field |-> field,
                                      input |-> Truncate(text), ok |-> run.out,
                                      passed |-> run.passed,
                                      outputs |-> run.outputs,
                                      result |-> run.result])] :
                  b \in before, run \in TextRuns(an, text)}

(* the inner loop over flds[1..n] (sentiment.py 131-135, emotion.py 99-103): *)
(* every way it can run, as the sub-map it builds and the calls it makes     *)
RECURSIVE FieldLoop(_, _, _, _, _)
FieldLoop(an, rec, article, flds, n) ==
    IF n = 0 THEN {[sub |-> EmptyDict, log |-> <<>>]}
    ELSE LET field == flds[n]
             text == DictGet(article, field, <<>>)
             before == FieldLoop(an, rec, article, flds, n - 1)
         IN  IF Truthy(text) /\ Truthy(Strip(text))
             THEN {[sub |-> DictSet(b.sub, field, run.result),
                    log |-> Append(b.log, [rec |-> rec, field |-> field,
                                           input |-> Truncate(text), ok |-> run.out,
                                           passed |-> run.passed,
                                           outputs |-> run.outputs,
                                           result |-> run.result])] :
                       b \in before, run \in TextRuns(an, text)}
             ELSE before

(* variant of Annotate: the analysis is stored in the input record itself *)
AnnotateInPlace(article, key, sub) ==
    [article |-> DictSet(article, key, sub), copy |-> DictSet(article, key, sub)]

(* article_copy = article.copy(); article_copy[key] = sub: the annotated    *)
(* copy, and the input record as the statements leave it                    *)
Annotate(article, key, sub) ==
    [article |-> article, copy |-> DictSet(article, key, sub)]

(* variant of AppendCopy: the copy is put at the front of the output list *)
PrependCopy(sub, log) ==
    LET r == Annotate(articles[idx], AnalysisKey, sub)
    IN  /\ analyzed_articles' = <<r.copy>> \o analyzed_articles
        /\ articles' = [articles EXCEPT ![idx] = r.article]
        /\ calls' = calls \o log
        /\ idx' = idx + 1
        /\ pc' = IF idx < Len(articles) THEN "loop" ELSE "stats"

(* analyzed_articles.append(article_copy) and the step of the outer loop *)
AppendCopy(sub, log) ==
    LET r == Annotate(articles[idx], AnalysisKey, sub)
    IN  /\ analyzed_articles' = Append(analyzed_articles, r.copy)
        /\ articles' = [articles EXCEPT ![idx] = r.article]
        /\ calls' = calls \o log
        /\ idx' = idx + 1
        /\ pc' = IF idx < Len(articles) THEN "loop" ELSE "stats"

(* sentiment.py 138-150: the possible overall dicts of a non-empty sub-map. *)
(* set(labels) is iterated in an order the language does not fix.           *)
SentimentOverallSet(sa) ==
    LET keys == DOMAIN sa
        labels == {sa[k].label : k \in keys}
        count == [l \in labels |-> Cardinality({k \in keys : sa[k].label = l})]
        total == SumOver(keys, [k \in keys |-> sa[k].score])
    IN  {[label |-> MaxFirst(order, count), score |-> s] :
            order \in Perms(labels), s \in RoundSet(total, Cardinality(keys))}

(* one iteration of the outer loop, sentiment.py 126-152 *)
SentimentAnalyzeArticle ==
    /\ pc = "loop"
    /\ analyzer = "sentiment"
    /\ \E run \in FieldLoop(analyzer, idx, articles[idx], fields, Len(fields)) :
           IF DOMAIN run.sub # {}
           THEN \E o \in SentimentOverallSet(run.sub) :
                    AppendCopy(DictSet(run.sub, "overall", o), run.log)
           ELSE AppendCopy(run.sub, run.log)
    /\ UNCHANGED <<analyzer, fields_arg, fields, stats, passes, textVars, driverVars, logVars>>

(* variant of WithDominant: the last maximal category *)
WithDominantLast(overall_emotions) ==
    IF DOMAIN overall_emotions = {} THEN overall_emotions
    ELSE LET order == SelectSeq(EMOTIONS, LAMBDA e : e \in DOMAIN overall_emotions)
             reversed == [i \in 1..Len(order) |-> order[Len(order) + 1 - i]]
             dominant == MaxFirst(reversed, overall_emotions)
         IN  DictSet(DictSet(overall_emotions, "dominant_emotion", dominant),
                     "dominant_score", overall_emotions[dominant])

(* emotion.py 121-124 *)
WithDominant(overall_emotions) ==
    IF DOMAIN overall_emotions = {} THEN overall_emotions
    ELSE LET order == SelectSeq(EMOTIONS, LAMBDA e : e \in DOMAIN overall_emotions)
             dominant == MaxFirst(order, overall_emotions)
         IN  DictSet(DictSet(overall_emotions, "dominant_emotion", dominant),
                     "dominant_score", overall_emotions[dominant])

(* variant of EmotionOverallSet: a field lacking a category counts as zero *)
EmotionOverallMissingAsZero(ea) ==
    LET keys == DOMAIN ea
        has(e) == {k \in keys : e \in DOMAIN ea[k]}
        cats == {e \in Range(EMOTIONS) : has(e) # {}}
        choices == [e \in cats |->
                       RoundSet(SumOver(has(e), [k \in has(e) |-> ea[k][e]]),
                                Cardinality(keys))]
    IN  {WithDominant(m) : m \in ProductSet(cats, choices)}

(* emotion.py 107-124: the possible overall dicts of a non-empty sub-map *)
EmotionOverallSet(ea) ==
    LET keys == DOMAIN ea
        has(e) == {k \in keys : e \in DOMAIN ea[k]}
        cats == {e \in Range(EMOTIONS) : has(e) # {}}
        choices == [e \in cats |->
                       RoundSet(SumOver(has(e), [k \in has(e) |-> ea[k][e]]),
                                Cardinality(has(e)))]
    IN  {WithDominant(m) : m \in ProductSet(cats, choices)}

(* one iteration of the outer loop, emotion.py 94-128 *)
EmotionAnalyzeArticle ==
    /\ pc = "loop"
    /\ analyzer = "emotion"
    /\ \E run \in FieldLoop(analyzer, idx, articles[idx], fields, Len(fields)) :
           IF DOMAIN run.sub # {}
           THEN \E o \in EmotionOverallSet(run.sub) :
                    AppendCopy(DictSet(run.sub, "overall", o), run.log)
           ELSE AppendCopy(run.sub, run.log)
    /\ UNCHANGED <<analyzer, fields_arg, fields, stats, passes, textVars, driverVars, logVars>>

----------------
(* Corpus statistics *)

(* article.get(key, {}).get("overall") for every article, in order *)
OverallOf(article, key) == DictGet(DictGet(article, key, EmptyDict), "overall", EmptyDict)

(* the overall results that are truthy, in input order *)
Overalls(arts, key) ==
    SelectSeq([i \in 1..Len(arts) |-> OverallOf(arts[i], key)], LAMBDA o : DOMAIN o # {})

(* variant of NeutralCount: the positive count is not subtracted *)
NeutralCountOnlyNegative(n, positive, negative) == n - negative

(* sentiment.py 181 *)
NeutralCount(n, positive, negative) == n - positive - negative

(* sentiment.py 166-195 *)
SentimentStatisticsSet(arts) ==
    LET sentiments == Overalls(arts, "sentiment_analysis")
        n == Len(sentiments)
        positive == Cardinality({i \in 1..n : sentiments[i].label = "POSITIVE"})
        negative == Cardinality({i \in 1..n : sentiments[i].label = "NEGATIVE"})
        neutral == NeutralCount(n, positive, negative)
        total == SumSeq([i \in 1..n |-> sentiments[i].score])
    IN  IF arts = <<>> THEN {EmptyDict}
        ELSE IF n = 0 THEN {EmptyDict}
        ELSE {[total_analyzed |-> n,
               positive |-> positive,
               negative |-> negative,
               neutral |-> neutral,
               positive_percent |-> pp,
               negative_percent |-> np,
               neutral_percent |-> up,
               average_confidence |-> avg] :
                  pp \in RoundSet(positive * 10000, n),
                  np \in RoundSet(negative * 10000, n),
                  up \in RoundSet(neutral * 10000, n),
                  avg \in RoundSet(total, n)}

SentimentStatistics ==
    /\ pc = "stats"
    /\ analyzer = "sentiment"
    /\ stats' \in SentimentStatisticsSet(analyzed_articles)
    /\ pc' = "done"
    /\ UNCHANGED <<analyzer, fields_arg, articles, fields, idx, analyzed_articles, calls,
                   passes, textVars, driverVars, logVars>>

(* variant of Distribution: divides by the number of distinct emotions *)
DistributionByKinds(dominant_counts, dominant_emotions) ==
    [e \in DOMAIN dominant_counts |->
        RoundSet(dominant_counts[e] * 10000, Cardinality(DOMAIN dominant_counts))]

(* emotion.py 186-189: the possible values of each entry *)
Distribution(dominant_counts, dominant_emotions) ==
    [e \in DOMAIN dominant_counts |->
        RoundSet(dominant_counts[e] * 10000, Len(dominant_emotions))]

(* emotion.py 145-190.  set(dominant_emotions) is iterated in an order the  *)
(* language does not fix; dict(dominant_sorted) keeps the sorted order, so  *)
(* dominant_emotion_counts is a sequence of items.                          *)
EmotionStatisticsBody(arts) ==
    LET overalls == Overalls(arts, "emotion_analysis")
        n == Len(overalls)
        with(e) == {i \in 1..n : e \in DOMAIN overalls[i]}
        averages == [e \in Range(EMOTIONS) |->
                        IF with(e) # {}
                        THEN RoundSet(SumOver(with(e), [i \in with(e) |-> overalls[i][e]]),
                                      Cardinality(with(e)))
                        ELSE {0}]
        dominant_emotions ==
            LET having == SelectSeq(overalls, LAMBDA o : "dominant_emotion" \in DOMAIN o)
            IN  [i \in 1..Len(having) |-> having[i]["dominant_emotion"]]
        dominant_counts == [e \in Range(dominant_emotions) |-> Count(dominant_emotions, e)]
        distribution == Distribution(dominant_counts, dominant_emotions)
        items(sorted) == [i \in 1..Len(sorted) |->
                             [emotion |-> sorted[i], count |-> dominant_counts[sorted[i]]]]
    IN  {[total_analyzed |-> Len(arts),
               average_emotions |-> avg,
               dominant_emotion_counts |-> items(SortedDesc(order, dominant_counts)),
               most_common_emotion |->
                   (IF order # <<>> THEN SortedDesc(order, dominant_counts)[1] ELSE NoneValue),
               emotion_distribution |-> dist] :
                  avg \in ProductSet(Range(EMOTIONS), averages),
                  order \in Perms(Range(dominant_emotions)),
                  dist \in ProductSet(Range(dominant_emotions), distribution)}

(* variant of EmotionStatisticsSet: no early return on an empty list *)
EmotionStatisticsUnguarded(arts) == EmotionStatisticsBody(arts)

(* emotion.py 142-143, then the rest of get_emotion_statistics *)
EmotionStatisticsSet(arts) ==
    IF arts = <<>> THEN {EmptyDict} ELSE EmotionStatisticsBody(arts)

EmotionStatistics ==
    /\ pc = "stats"
    /\ analyzer = "emotion"
    /\ stats' \in EmotionStatisticsSet(analyzed_articles)
    /\ pc' = "done"
    /\ UNCHANGED <<analyzer, fields_arg, articles, fields, idx, analyzed_articles, calls,
                   passes, textVars, driverVars, logVars>>

----------------------------------------------------------------------------
(* analyze_text and analyze_batch called directly *)

(* a text argument: none = TRUE is None, else the string chars *)
NoneText == [none |-> TRUE, chars |-> <<>>]

Text(chars) == [none |-> FALSE, chars |-> chars]

(* None is falsy, as the empty string is: `not text`, `text and ...` *)
AsText(arg) == IF arg.none THEN <<>> ELSE arg.chars

(* a text of n characters whose characters at and after MaxLength differ *)
LongText(n) ==
    [i \in 1..n |-> IF i < MaxLength THEN "a" ELSE IF i = MaxLength THEN "b" ELSE "c"]

TextArgs ==
    {NoneText} \cup {Text(t) : t \in {<<>>, <<" ">>, <<"a">>, <<" ", "a">>,
                                       LongText(MaxLength), LongText(MaxLength + 1),
                                       LongText(MaxLength + 2)}}

BatchTexts == {Text(<<" ">>), Text(<<"a">>), Text(LongText(MaxLength + 1))}

(* no analyze_articles call *)
NoArticles ==
    /\ analyzer = "sentiment"
    /\ fields_arg = [none |-> TRUE, names |-> <<>>]
    /\ articles = <<>>
    /\ fields = <<>>
    /\ analyzed_articles = <<>>
    /\ calls = <<>>
    /\ stats = EmptyDict
    /\ passes = 1

(* text[:512] if text and text.strip() else "" *)
Clean(arg) ==
    IF Truthy(AsText(arg)) /\ Truthy(Strip(AsText(arg))) THEN Truncate(AsText(arg)) ELSE <<>>

(* a caller that calls analyze_text on texts of its choice *)
InitTextCalls ==
    /\ NoArticles
    /\ NoDriver
    /\ NoLogging
    /\ NoTexts
    /\ idx = 0
    /\ pc = "text"

(* a caller that calls analyze_batch(texts, batch_size) on a classifier     *)
(* whose output is a function of the text it is given                       *)
InitBatch ==
    /\ NoArticles
    /\ NoDriver
    /\ NoLogging
    /\ call = <<>>
    /\ texts \in UNION {[1..n -> BatchTexts] : n \in 0..MaxTexts}
    /\ batch_size \in 1..MaxTexts
    /\ model_fn \in [{Clean(texts[k]) : k \in DOMAIN texts} -> SentimentOutputs]
    /\ results = <<>>
    /\ chunks = <<>>
    /\ prev = <<>>
    /\ idx = 0
    /\ pc = "batch"

InitTexts == InitTextCalls \/ InitBatch

(* one analyze_text call of either analyzer (sentiment.py 37-61,            *)
(* emotion.py 44-73)                                                        *)
AnalyzeTextCall ==
    /\ pc = "text"
    /\ Len(call) < MaxCalls
    /\ \E an \in Analyzers, arg \in TextArgs :
           \E run \in TextRuns(an, AsText(arg)) :
               call' = Append(call, [an |-> an, arg |-> arg, passed |-> run.passed,
                                     ok |-> run.out, outputs |-> run.outputs,
                                     result |-> run.result])
    /\ UNCHANGED <<analyzer, fields_arg, articles, fields, idx, analyzed_articles, calls,
                   stats, pc, passes, texts, batch_size, model_fn, results, chunks, prev,
                   driverVars, logVars>>

(* variant of ChunkErrors: one sentinel for the whole chunk *)
ChunkErrorsOnce(batch) == <<[label |-> "ERROR", score |-> 0]>>

(* sentiment.py 100-103: a sentinel for every text of the chunk *)
ChunkErrors(batch) == [k \in 1..Len(batch) |-> [label |-> "ERROR", score |-> 0]]

(* sentiment.py 93-98: the possible result lists of a chunk the classifier  *)
(* answered with outs, one output per text                                  *)
RECURSIVE ChunkResults(_)
ChunkResults(outs) ==
    IF outs = <<>> THEN {<<>>}
    ELSE {<<[label |-> Head(outs).label, score |-> s]>> \o rest :
             s \in Round4(Head(outs).score), rest \in ChunkResults(Tail(outs))}

(* one iteration of the loop of analyze_batch, sentiment.py 79-103; idx is  *)
(* the loop variable i.  The classifier raises when it raises on a text of  *)
(* the chunk.                                                               *)
BatchChunk ==
    /\ pc = "batch"
    /\ idx < Len(texts)
    /\ LET last == IF idx + batch_size < Len(texts) THEN idx + batch_size ELSE Len(texts)
           batch == SubSeq(texts, idx + 1, last)
       IN  /\ chunks' = Append(chunks, [start |-> idx,
                                        passed |-> [k \in 1..Len(batch) |-> Clean(batch[k])]])
           /\ LET cleaned_batch == chunks'[Len(chunks')].passed
                  outs == [k \in 1..Len(batch) |-> model_fn[cleaned_batch[k]]]
              IN  IF \A k \in 1..Len(batch) : outs[k].ok
                  THEN \E rs \in ChunkResults(outs) : results' = results \o rs
                  ELSE results' = results \o ChunkErrors(batch)
    /\ idx' = idx + batch_size
    /\ UNCHANGED <<analyzer, fields_arg, articles, fields, analyzed_articles, calls, stats,
                   pc, passes, call, texts, batch_size, model_fn, prev, driverVars, logVars>>

(* sentiment.py 105: the loop is over, results is returned *)
BatchReturn ==
    /\ pc = "batch"
    /\ idx >= Len(texts)
    /\ pc' = "batch_done"
    /\ UNCHANGED <<analyzer, fields_arg, articles, fields, idx, analyzed_articles, calls,
                   stats, passes, textVars, driverVars, logVars>>

NextTexts == AnalyzeTextCall \/ BatchChunk \/ BatchReturn

SpecTexts == InitTexts /\ [][NextTexts]_vars

(* the caller calls analyze_batch again on the same texts and the same      *)
(* classifier with another batch size                                       *)
BatchAgain ==
    /\ pc = "batch_done"
    /\ Len(prev) + 1 < MaxPasses
    /\ prev' = Append(prev, [batch_size |-> batch_size, results |-> results])
    /\ batch_size' \in (1..MaxTexts) \ ({batch_size} \cup {prev[k].batch_size : k \in DOMAIN prev})
    /\ results' = <<>>
    /\ chunks' = <<>>
    /\ idx' = 0
    /\ pc' = "batch"
    /\ UNCHANGED <<analyzer, fields_arg, articles, fields, analyzed_articles, calls, stats,
                   passes, call, texts, model_fn, driverVars, logVars>>

NextChunking == BatchChunk \/ BatchReturn \/ BatchAgain

SpecChunking == InitBatch /\ [][NextChunking]_vars

----------------------------------------------------------------------------
Next ==
    \/ Begin
    \/ SentimentAnalyzeArticle
    \/ EmotionAnalyzeArticle
    \/ SentimentStatistics
    \/ EmotionStatistics

Spec == Init /\ [][Next]_vars

----------------------------------------------------------------------------
(* A caller that feeds the output of analyze_articles to analyze_articles   *)
(* again, of the same or of the other analyzer, with fields of its choice   *)

InitChained ==
    /\ Init
    /\ Len(articles) <= MaxChained

RunAgain ==
    /\ pc = "done"
    /\ passes < MaxPasses
    /\ passes' = passes + 1
    /\ articles' = analyzed_articles
    /\ analyzer' \in Analyzers
    /\ fields_arg' \in FieldArgs
    /\ fields' = <<>>
    /\ idx' = 0
    /\ analyzed_articles' = <<>>
    /\ calls' = <<>>
    /\ stats' = EmptyDict
    /\ pc' = "begin"
    /\ UNCHANGED <<textVars, driverVars, logVars>>

NextChained == Next \/ RunAgain

SpecChained == InitChained /\ [][NextChained]_vars

----------------------------------------------------------------------------
(* The drivers: main of sentiment.py, main of emotion.py and the combined   *)
(* main of tests/test_analysis.py.  A file on disk is "absent", "partial"   *)
(* (opened for writing, not all of its content written) or "complete".     *)

Drivers == {"sentiment", "emotion", "combined"}

(* phase 1: the (first) analysis; phase 2 of the combined driver: the       *)
(* emotion analysis and the JSON report; phase 3: the summary report        *)
InitDriver ==
    /\ driver \in {[name |-> n, input_exists |-> e, phase |-> 1] :
                      n \in Drivers, e \in BOOLEAN}
    /\ files = [f \in ReportFiles |-> "absent"]
    /\ analyzer = (IF driver.name = "emotion" THEN "emotion" ELSE "sentiment")
    /\ fields_arg = [none |-> FALSE, names |-> <<"title", "description">>]
    /\ articles \in (IF driver.input_exists THEN ArticleLists(<<"title", "description">>)
                     ELSE {<<>>})
    /\ fields = <<>>
    /\ idx = 0
    /\ analyzed_articles = <<>>
    /\ calls = <<>>
    /\ stats = EmptyDict
    /\ passes = 1
    /\ NoTexts
    /\ NoLogging
    /\ pc = "main"

(* the input file is looked for, then load_articles_from_json *)
DriverLoad ==
    /\ pc = "main"
    /\ pc' = IF driver.input_exists THEN "begin" ELSE "returned"
    /\ UNCHANGED <<analyzer, fields_arg, articles, fields, idx, analyzed_articles, calls,
                   stats, passes, textVars, driverVars, logVars>>

(* the statistics are printed: stats['total_analyzed'] raises KeyError on   *)
(* an empty statistics object, emotion_stats['most_common_emotion'].upper() *)
(* raises on None (combined driver only).  The combined driver goes on to   *)
(* the emotion analysis of the same articles.                               *)
DriverReport ==
    /\ pc = "done"
    /\ driver.name \in Drivers
    /\ IF stats = EmptyDict
       THEN pc' = "failed" /\ UNCHANGED <<analyzer, fields, idx, analyzed_articles, calls,
                                          stats, driver>>
       ELSE IF driver.name = "combined" /\ driver.phase = 1
       THEN /\ driver' = [driver EXCEPT !.phase = 2]
            /\ analyzer' = "emotion"
            /\ fields' = <<>>
            /\ idx' = 0
            /\ analyzed_articles' = <<>>
            /\ calls' = <<>>
            /\ stats' = EmptyDict
            /\ pc' = "begin"
       ELSE /\ pc' = (IF driver.name = "combined" /\ stats.most_common_emotion = NoneValue
                      THEN "failed" ELSE "save")
            /\ UNCHANGED <<analyzer, fields, idx, analyzed_articles, calls, stats, driver>>
    /\ UNCHANGED <<fields_arg, articles, passes, textVars, files, logVars>>

(* the file the driver writes next *)
CurrentFile ==
    IF driver.name = "sentiment" THEN "sentiment_analysis/analyzed_articles.json"
    ELSE IF driver.name = "emotion" THEN "emotion_analysis/analyzed_articles.json"
    ELSE IF driver.phase = 2 THEN "combined_analysis/sentiment_emotion_analysis.json"
    ELSE "combined_analysis/analysis_summary.txt"

(* mkdir and open(output_file, 'w'): the file exists and is empty, unless   *)
(* the call raises (OSError)                                                *)
DriverOpen ==
    /\ pc = "save"
    /\ \E ok \in BOOLEAN :
           IF ok THEN /\ files' = [files EXCEPT ![CurrentFile] = "partial"]
                      /\ pc' = "dump"
           ELSE /\ pc' = "failed"
                /\ UNCHANGED files
    /\ UNCHANGED <<analyzer, fields_arg, articles, fields, idx, analyzed_articles, calls,
                   stats, passes, textVars, driver, logVars>>

(* json.dump / f.write into the open file, then close: all of the content   *)
(* is written, unless a write raises (a character utf-8 cannot encode, an   *)
(* OSError), which leaves what was written before                           *)
DriverWrite ==
    /\ pc = "dump"
    /\ \E ok \in BOOLEAN :
           IF ok
           THEN /\ files' = [files EXCEPT ![CurrentFile] = "complete"]
                /\ IF driver.name = "combined" /\ driver.phase = 2
                   THEN driver' = [driver EXCEPT !.phase = 3] /\ pc' = "save"
                   ELSE driver' = driver /\ pc' = "finished"
           ELSE /\ pc' = "failed"
                /\ UNCHANGED <<files, driver>>
    /\ UNCHANGED <<analyzer, fields_arg, articles, fields, idx, analyzed_articles, calls,
                   stats, passes, textVars, logVars>>

NextDriver == Next \/ DriverLoad \/ DriverReport \/ DriverOpen \/ DriverWrite

SpecDriver == InitDriver /\ [][NextDriver]_vars

----------------------------------------------------------------------------
(* utils/logger.py on the logging module.  A logger name is the sequence of *)
(* its dot-separated parts; the loggers whose names are proper prefixes of  *)
(* a name are its ancestors, and a logger hands every record it accepts to  *)
(* its own handlers and to those of its ancestors (propagate is never       *)
(* cleared).  A handler target is a path: the directory and the parts of    *)
(* the logger name for a log file (the date in the file name is that of the *)
(* call that opens it), sys.stdout for the console.                         *)

DefaultLoggerName == <<"geopolitical_narrative">>

LoggerNames == {DefaultLoggerName, <<"geopolitical_narrative", "ingestion">>, <<"test_ingestion">>}

LogDirs == {"logs", "run_logs"}

Levels == <<"DEBUG", "INFO", "WARNING">>

LevelRank(l) == CHOOSE i \in DOMAIN Levels : Levels[i] = l

(* the levels callers pass to setup_logger *)
SetupLevels == {"INFO", "WARNING"}

Stdout == <<"sys.stdout">>

(* setup_logger, logger.py 13-70: the loggers after the call *)
SetupLogger(name, log_dir, level, console_output) ==
    LET logger == IF name \in DOMAIN loggers THEN loggers[name]
                  ELSE [level |-> "NOTSET", handlers |-> <<>>]
        file_handler == [kind |-> "file", level |-> "DEBUG", target |-> <<log_dir>> \o name]
        console_handler == [kind |-> "console", level |-> level, target |-> Stdout]
    IN  IF logger.handlers # <<>>
        THEN DictSet(loggers, name, [logger EXCEPT !.level = level])
        ELSE DictSet(loggers, name,
                     [level |-> level,
                      handlers |-> IF console_output THEN <<file_handler, console_handler>>
                                   ELSE <<file_handler>>])

(* the handlers a record of logger `name` is handed to, in order: those of  *)
(* the logger, then those of its ancestors from the nearest on              *)
RECURSIVE HandlerChain(_, _)
HandlerChain(name, n) ==
    IF n = 0 THEN <<>>
    ELSE LET prefix == SubSeq(name, 1, n)
         IN  (IF prefix \in DOMAIN loggers THEN loggers[prefix].handlers ELSE <<>>)
                 \o HandlerChain(name, n - 1)

(* logger.log(level, msg) on the logger `name`: the targets written, in     *)
(* order                                                                    *)
Emission(name, level) ==
    IF LevelRank(level) < LevelRank(loggers[name].level) THEN <<>>
    ELSE LET accepting == SelectSeq(HandlerChain(name, Len(name)),
                                    LAMBDA h : LevelRank(level) >= LevelRank(h.level))
         IN  [i \in 1..Len(accepting) |-> accepting[i].target]

InitLogger ==
    /\ NoArticles
    /\ NoDriver
    /\ NoTexts
    /\ NoLogging
    /\ idx = 0
    /\ pc = "import"

(* logger.py 89: the module-level logger, made when the module is imported *)
ImportLogger ==
    /\ pc = "import"
    /\ loggers' = SetupLogger(DefaultLoggerName, "logs", "INFO", TRUE)
    /\ pc' = "ready"
    /\ UNCHANGED <<analyzer, fields_arg, articles, fields, idx, analyzed_articles, calls,
                   stats, passes, textVars, driverVars, emitted>>

(* a call of setup_logger by a caller *)
SetupLoggerCall ==
    /\ pc = "ready"
    /\ \E name \in LoggerNames, log_dir \in LogDirs, level \in SetupLevels,
          console_output \in BOOLEAN :
           loggers' = SetupLogger(name, log_dir, level, console_output)
    /\ UNCHANGED <<analyzer, fields_arg, articles, fields, idx, analyzed_articles, calls,
                   stats, pc, passes, textVars, driverVars, emitted>>

(* a message is logged on a logger that setup_logger returned *)
LogMessage ==
    /\ pc = "ready"
    /\ \E name \in DOMAIN loggers, level \in Range(Levels) :
           emitted' = Emission(name, level)
    /\ UNCHANGED <<analyzer, fields_arg, articles, fields, idx, analyzed_articles, calls,
                   stats, pc, passes, textVars, driverVars, loggers>>

NextLogger == ImportLogger \/ SetupLoggerCall \/ LogMessage

SpecLogger == InitLogger /\ [][NextLogger]_vars

----------------------------------------------------------------------------
(* Every entry point of the analyzers: analyze_articles followed by the     *)
(* statistics, analyze_text, analyze_batch                                  *)

InitAll == Init \/ InitTexts

NextAll == Next \/ NextTexts

SpecAll == InitAll /\ [][NextAll]_vars

----------------------------------------------------------------------------
(* Vocabulary of the properties *)

(* a text with at least one character that is not whitespace *)
Visible(text) == \E k \in 1..Len(text) : text[k] \notin Whitespace

(* the analyze_text calls made for record i, in call order *)
CallsOf(i) == SelectSeq(calls, LAMBDA c : c.rec = i)

(* the analysis sub-map of output record i *)
SubMap(i) == analyzed_articles[i][AnalysisKey]

HasOverall(i) == "overall" \in DOMAIN SubMap(i)

(* q is num/den rounded to the nearest unit *)
Nearest(q, num, den) == 2 * Abs(q * den - num) <= den

SentimentLabels == {"POSITIVE", "NEGATIVE", "NEUTRAL", "ERROR"}

LabelCount(i, l) == Cardinality({k \in DOMAIN CallsOf(i) : CallsOf(i)[k].result.label = l})

(* the requested fields of input record i that hold visible text *)
VisibleFields(i) ==
    {f \in Range(fields) : f \in DOMAIN articles[i] /\ Visible(articles[i][f])}

----------------------------------------------------------------------------
(* C1: in SentimentAnalyzer.analyze_articles, every record with at least    *)
(* one per-field result has an overall label that occurs among its          *)
(* per-field labels, and no label occurs strictly more often than it.       *)
C1_PluralityLabel ==
    analyzer = "sentiment" =>
        \A i \in DOMAIN analyzed_articles :
            CallsOf(i) # <<>> =>
                /\ HasOverall(i)
                /\ LabelCount(i, SubMap(i)["overall"].label) >= 1
                /\ \A l \in SentimentLabels :
                       LabelCount(i, l) <= LabelCount(i, SubMap(i)["overall"].label)

(* a record whose three fields got two labels, one of them twice *)
C1_Witness ==
    /\ analyzer = "sentiment"
    /\ \E i \in DOMAIN analyzed_articles :
           /\ LabelCount(i, "NEGATIVE") = 2
           /\ LabelCount(i, "POSITIVE") = 1
           /\ SubMap(i)["overall"].label = "NEGATIVE"

(* C2: for every record with at least one analyzed field the overall score  *)
(* is the unweighted mean of the per-field scores to 4 decimals: sentiment  *)
(* over all per-field scores (an ERROR result counting 0.0); emotion, per   *)
(* category, over exactly the per-field results that contain the category,  *)
(* a category that no field has being absent from the overall result.       *)
C2_MeanScore ==
    \A i \in DOMAIN analyzed_articles :
        LET cs == CallsOf(i)
            with(e) == {k \in DOMAIN cs : e \in DOMAIN cs[k].result}
        IN  cs # <<>> =>
                /\ HasOverall(i)
                /\ analyzer = "sentiment" =>
                       Nearest(SubMap(i)["overall"].score,
                               SumSeq([k \in DOMAIN cs |-> cs[k].result.score]), Len(cs))
                /\ analyzer = "emotion" =>
                       \A e \in Range(EMOTIONS) :
                           IF with(e) = {}
                           THEN e \notin DOMAIN SubMap(i)["overall"]
                           ELSE /\ e \in DOMAIN SubMap(i)["overall"]
                                /\ Nearest(SubMap(i)["overall"][e],
                                           SumOver(with(e), [k \in with(e) |-> cs[k].result[e]]),
                                           Cardinality(with(e)))

(* an emotion record with two analyzed fields of which only one has "fear" *)
C2_Witness ==
    /\ analyzer = "emotion"
    /\ \E i \in DOMAIN analyzed_articles :
           /\ Len(CallsOf(i)) = 2
           /\ Cardinality({k \in 1..2 : "fear" \in DOMAIN CallsOf(i)[k].result}) = 1
           /\ HasOverall(i)
           /\ SubMap(i)["overall"]["fear"] = 8992
           /\ SubMap(i)["overall"]["joy"] = 2584

(* the categories that have a mean in the overall result of record i *)
MeanCategories(i) == {e \in Range(EMOTIONS) : e \in DOMAIN SubMap(i)["overall"]}

Position(e) == CHOOSE k \in DOMAIN EMOTIONS : EMOTIONS[k] = e

(* C3: in EmotionAnalyzer.analyze_articles, whenever the overall result has *)
(* category means, dominant_emotion is a category whose mean is the maximum *)
(* of the means, dominant_score is that maximum, every category earlier in  *)
(* the order anger, disgust, fear, joy, neutral, sadness, surprise has a    *)
(* strictly smaller mean, and an all-zero record yields anger with 0.0.     *)
C3_DominantEmotion ==
    analyzer = "emotion" =>
        \A i \in DOMAIN analyzed_articles :
            (HasOverall(i) /\ MeanCategories(i) # {}) =>
                LET o == SubMap(i)["overall"]
                    d == o["dominant_emotion"]
                IN  /\ d \in MeanCategories(i)
                    /\ \A e \in MeanCategories(i) : o[e] <= o[d]
                    /\ o["dominant_score"] = o[d]
                    /\ \A e \in MeanCategories(i) : Position(e) < Position(d) => o[e] < o[d]
                    /\ (MeanCategories(i) = Range(EMOTIONS) /\ \A e \in Range(EMOTIONS) : o[e] = 0)
                           => (d = "anger" /\ o["dominant_score"] = 0)

(* a record where joy and sadness tie for the maximum and joy is dominant *)
C3_Witness ==
    /\ analyzer = "emotion"
    /\ \E i \in DOMAIN analyzed_articles :
           /\ HasOverall(i)
           /\ MeanCategories(i) = Range(EMOTIONS)
           /\ SubMap(i)["overall"]["joy"] = SubMap(i)["overall"]["sadness"]
           /\ SubMap(i)["overall"]["joy"] > SubMap(i)["overall"]["fear"]
           /\ SubMap(i)["overall"]["dominant_emotion"] = "joy"

(* C4: for both analyzers the analysis sub-map of an output record has the  *)
(* key "overall" if and only if some requested field of the record holds    *)
(* non-empty, non-whitespace text; otherwise the sub-map is empty.          *)
C4_OverallIffVisibleField ==
    \A i \in DOMAIN analyzed_articles :
        /\ HasOverall(i) <=> VisibleFields(i) # {}
        /\ VisibleFields(i) = {} => DOMAIN SubMap(i) = {}

(* an output record whose only requested text is whitespace, next to one    *)
(* that has an overall result                                               *)
C4_Witness ==
    \E i, j \in DOMAIN analyzed_articles :
        /\ \E f \in Range(fields) : f \in DOMAIN articles[i] /\ ~Visible(articles[i][f])
        /\ DOMAIN SubMap(i) = {}
        /\ HasOverall(j)

(* C5: for both analyzers and any list of requested fields, the sub-map of  *)
(* each output record holds under each requested field with visible text    *)
(* the analyze_text result of that text, holds no entry for a requested     *)
(* field that is missing, empty or whitespace-only, and has no other key    *)
(* than "overall".                                                          *)
C5_FieldEntries ==
    \A i \in DOMAIN analyzed_articles :
        /\ \A f \in VisibleFields(i) :
               /\ f \in DOMAIN SubMap(i)
               /\ \E k \in DOMAIN CallsOf(i) :
                      CallsOf(i)[k].field = f /\ SubMap(i)[f] = CallsOf(i)[k].result
        /\ \A f \in Range(fields) \ VisibleFields(i) :
               f # "overall" => f \notin DOMAIN SubMap(i)
        /\ DOMAIN SubMap(i) \subseteq VisibleFields(i) \cup {"overall"}

(* the output records that have an overall result *)
WithOverall == {i \in DOMAIN analyzed_articles : HasOverall(i)}

OverallLabel(i) == SubMap(i)["overall"].label

(* C6: a non-empty result of get_sentiment_statistics has total_analyzed    *)
(* equal to the number of records with an overall result; positive and      *)
(* negative count the overall labels POSITIVE and NEGATIVE, neutral every   *)
(* other overall label; the three are non-negative and sum to               *)
(* total_analyzed; each percentage is count / total_analyzed * 100; an      *)
(* all-POSITIVE corpus gives 100, 0 and 0.                                  *)
C6_SentimentStatistics ==
    (analyzer = "sentiment" /\ pc = "done" /\ DOMAIN stats # {}) =>
        LET total == Cardinality(WithOverall)
            pos == Cardinality({i \in WithOverall : OverallLabel(i) = "POSITIVE"})
            neg == Cardinality({i \in WithOverall : OverallLabel(i) = "NEGATIVE"})
            other == Cardinality({i \in WithOverall :
                                     OverallLabel(i) \notin {"POSITIVE", "NEGATIVE"}})
        IN  /\ stats.total_analyzed = total
            /\ stats.positive = pos /\ stats.negative = neg /\ stats.neutral = other
            /\ stats.positive >= 0 /\ stats.negative >= 0 /\ stats.neutral >= 0
            /\ stats.positive + stats.negative + stats.neutral = stats.total_analyzed
            /\ Nearest(stats.positive_percent, pos * 10000, total)
            /\ Nearest(stats.negative_percent, neg * 10000, total)
            /\ Nearest(stats.neutral_percent, other * 10000, total)
            /\ pos = total =>
                   /\ stats.positive_percent = 10000
                   /\ stats.negative_percent = 0 /\ stats.negative = 0
                   /\ stats.neutral_percent = 0 /\ stats.neutral = 0

(* statistics over a POSITIVE record, an ERROR record and a record without  *)
(* an overall result                                                        *)
C6_Witness ==
    /\ analyzer = "sentiment" /\ pc = "done" /\ DOMAIN stats # {}
    /\ Len(analyzed_articles) = 3
    /\ stats.total_analyzed = 2
    /\ stats.positive = 1
    /\ stats.neutral = 1
    /\ \E i \in WithOverall : OverallLabel(i) = "ERROR"

(* C7: in the statistics of both analyzers records without an overall       *)
(* result do not count toward any total: total_analyzed is the number of    *)
(* records that have an overall result, and the emotion averages are taken  *)
(* over those records only.                                                 *)
C7_TotalSkipsRecordsWithoutOverall ==
    (pc = "done" /\ DOMAIN stats # {}) =>
        /\ stats.total_analyzed = Cardinality(WithOverall)
        /\ analyzer = "emotion" =>
               \A e \in Range(EMOTIONS) :
                   LET having == {i \in WithOverall : e \in DOMAIN SubMap(i)["overall"]}
                   IN  IF having = {} THEN stats.average_emotions[e] = 0
                       ELSE Nearest(stats.average_emotions[e],
                                    SumOver(having, [i \in having |-> SubMap(i)["overall"][e]]),
                                    Cardinality(having))

(* the records that have a dominant emotion, and how many have emotion e *)
WithDominantEmotion ==
    {i \in WithOverall : "dominant_emotion" \in DOMAIN SubMap(i)["overall"]}

DominantCount(e) ==
    Cardinality({i \in WithDominantEmotion : SubMap(i)["overall"]["dominant_emotion"] = e})

CountKeys == {stats.dominant_emotion_counts[k].emotion : k \in DOMAIN stats.dominant_emotion_counts}

(* C8: dominant_emotion_counts maps each emotion that is dominant in at     *)
(* least one record to the number of such records (no zero entry, counts    *)
(* summing to the number of records with a dominant emotion);               *)
(* emotion_distribution has the same keys with count divided by that number *)
(* times 100; one fear and one joy record give 1, 1 and 50.0, 50.0.         *)
C8_DominantCounts ==
    (analyzer = "emotion" /\ pc = "done" /\ DOMAIN stats # {}) =>
        LET items == stats.dominant_emotion_counts
            n == Cardinality(WithDominantEmotion)
        IN  /\ CountKeys = {e \in Range(EMOTIONS) : DominantCount(e) > 0}
            /\ \A k, l \in DOMAIN items : items[k].emotion = items[l].emotion => k = l
            /\ \A k \in DOMAIN items :
                   items[k].count = DominantCount(items[k].emotion) /\ items[k].count > 0
            /\ SumSeq([k \in DOMAIN items |-> items[k].count]) = n
            /\ DOMAIN stats.emotion_distribution = CountKeys
            /\ \A e \in CountKeys :
                   Nearest(stats.emotion_distribution[e], DominantCount(e) * 10000, n)
            /\ (n = 2 /\ DominantCount("fear") = 1 /\ DominantCount("joy") = 1) =>
                   /\ stats.emotion_distribution["fear"] = 5000
                   /\ stats.emotion_distribution["joy"] = 5000

(* one fear record, one joy record and a record without dominant emotion *)
C8_Witness ==
    /\ analyzer = "emotion" /\ pc = "done" /\ DOMAIN stats # {}
    /\ Len(analyzed_articles) = 3
    /\ Cardinality(WithDominantEmotion) = 2
    /\ DominantCount("fear") = 1 /\ DominantCount("joy") = 1
    /\ stats.emotion_distribution["fear"] = 5000

(* C9: on a non-empty input most_common_emotion is None exactly when no     *)
(* record has a dominant emotion; otherwise it is a key of                  *)
(* dominant_emotion_counts whose count is at least every other count, and   *)
(* it is the first key of dominant_emotion_counts, which is in descending   *)
(* order of count.                                                          *)
C9_MostCommonEmotion ==
    (analyzer = "emotion" /\ pc = "done" /\ articles # <<>>) =>
        LET items == stats.dominant_emotion_counts
            mc == stats.most_common_emotion
        IN  /\ mc = NoneValue <=> WithDominantEmotion = {}
            /\ WithDominantEmotion # {} =>
                   /\ mc \in CountKeys
                   /\ \A e \in Range(EMOTIONS) : DominantCount(e) <= DominantCount(mc)
                   /\ items[1].emotion = mc
                   /\ \A k, l \in DOMAIN items : k < l => items[k].count >= items[l].count

(* joy dominant in two records and fear in one *)
C9_Witness ==
    /\ analyzer = "emotion" /\ pc = "done"
    /\ DominantCount("joy") = 2 /\ DominantCount("fear") = 1
    /\ stats.most_common_emotion = "joy"

(* C10: for an empty input sequence get_sentiment_statistics and            *)
(* get_emotion_statistics return an object with no keys.                    *)
C10_EmptyInputEmptyStatistics ==
    (pc = "done" /\ articles = <<>>) => DOMAIN stats = {}

(* get_emotion_statistics has returned on an empty input *)
C10_Witness ==
    /\ analyzer = "emotion" /\ pc = "done" /\ articles = <<>>
    /\ analyzed_articles = <<>>
    /\ stats = EmptyDict

----------------------------------------------------------------------------
(* Vocabulary of the properties about texts and the classifier *)

(* None, the empty string or a string of whitespace only *)
Blank(arg) == arg.none \/ \A i \in 1..Len(arg.chars) : arg.chars[i] \in Whitespace

(* what analyze_text returns without analysing *)
Placeholder(an) ==
    IF an = "sentiment" THEN [label |-> "NEUTRAL", score |-> 0]
    ELSE [e \in {"anger", "disgust", "fear", "joy", "neutral", "sadness", "surprise"} |-> 0]

(* what analyze_text returns when the classifier has raised *)
Sentinel(an) ==
    IF an = "sentiment" THEN [label |-> "ERROR", score |-> 0]
    ELSE [e \in {"anger", "disgust", "fear", "joy", "neutral", "sadness", "surprise"} |-> 0]

(* result is what analyze_text makes of the classifier's output out *)
Reports(an, result, out) ==
    IF an = "sentiment"
    THEN result.label = out.label /\ Nearest(result.score, out.score, 10)
    ELSE /\ DOMAIN result = DOMAIN out.scores
         /\ \A e \in DOMAIN result : Nearest(result[e], out.scores[e], 10)

(* the first MaxLength characters of a string *)
First512(chars) ==
    IF Len(chars) > MaxLength THEN [i \in 1..MaxLength |-> chars[i]] ELSE chars

(* how many times the classifier was invoked for field f of record i *)
Invocations(i, f) ==
    SumSeq([k \in DOMAIN calls |->
               IF calls[k].rec = i /\ calls[k].field = f THEN Len(calls[k].passed) ELSE 0])

----------------------------------------------------------------------------
(* C11: for every text that is None, empty or whitespace-only, analyze_text *)
(* of either analyzer returns the fixed placeholder (NEUTRAL with score 0,  *)
(* all seven categories 0) and never invokes the classifier.                *)
C11_BlankTextPlaceholder ==
    \A k \in DOMAIN call :
        Blank(call[k].arg) =>
            /\ call[k].passed = <<>>
            /\ call[k].result = Placeholder(call[k].an)

(* the emotion analyzer has been given a string of whitespace *)
C11_Witness ==
    \E k \in DOMAIN call :
        /\ call[k].an = "emotion"
        /\ ~call[k].arg.none
        /\ call[k].arg.chars = <<" ">>
        /\ call[k].result = Placeholder("emotion")

----------------------------------------------------------------------------
(* C12: when the classifier raises on a call, analyze_text returns the      *)
(* sentinel (ERROR with score 0, all seven categories 0), analyze_articles  *)
(* still returns one annotated record per input record, and every call on   *)
(* which the classifier did not raise reports the classifier's own output,  *)
(* whether it comes before or after the failing one.                        *)
C12_FailureBecomesSentinel ==
    /\ \A k \in DOMAIN calls :
           IF calls[k].ok
           THEN /\ calls[k].outputs # <<>>
                /\ Reports(analyzer, calls[k].result, calls[k].outputs[1])
           ELSE calls[k].result = Sentinel(analyzer)
    /\ \A k \in DOMAIN calls :
           /\ calls[k].rec \in 1..Len(analyzed_articles)
           /\ calls[k].field # "overall" => SubMap(calls[k].rec)[calls[k].field] = calls[k].result
    /\ pc = "loop" => Len(analyzed_articles) = idx - 1
    /\ pc \in {"stats", "done"} => Len(analyzed_articles) = Len(articles)

(* a run has ended in which the classifier raised on the second of three    *)
(* records and answered on the first and the third                          *)
C12_Witness ==
    /\ pc = "done"
    /\ Len(analyzed_articles) = 3
    /\ Len(calls) = 3
    /\ calls[1].rec = 1 /\ calls[1].ok
    /\ calls[2].rec = 2 /\ ~calls[2].ok
    /\ calls[3].rec = 3 /\ calls[3].ok

----------------------------------------------------------------------------
(* C13: during a run of analyze_articles of either analyzer the classifier  *)
(* is invoked exactly once for each (record, requested field) pair whose    *)
(* text has a character that is not whitespace, and never for another pair; *)
(* an invocation that raised is turned into the sentinel and not repeated.  *)
C13_OneInvocationPerVisibleText ==
    /\ \A i \in 1..Len(analyzed_articles) : \A j \in DOMAIN fields :
           Invocations(i, fields[j]) =
               IF fields[j] \in DOMAIN articles[i] /\ Visible(articles[i][fields[j]])
               THEN 1 ELSE 0
    /\ \A k \in DOMAIN calls :
           /\ calls[k].rec \in 1..Len(analyzed_articles)
           /\ calls[k].field \in Range(fields)
           /\ ~calls[k].ok => /\ Len(calls[k].passed) = 1
                              /\ calls[k].result = Sentinel(analyzer)

(* a run has ended on a record with a blank title and a description on      *)
(* which the classifier raised                                              *)
C13_Witness ==
    /\ pc = "done"
    /\ fields = <<"title", "description">>
    /\ Len(articles) = 1
    /\ DOMAIN articles[1] = {"title", "description"}
    /\ ~Visible(articles[1]["title"])
    /\ Len(calls) = 1
    /\ ~calls[1].ok

----------------------------------------------------------------------------
(* C14: the classifier receives exactly the first 512 characters of a text  *)
(* longer than 512 characters and receives a non-blank text of at most 512  *)
(* characters unchanged, in analyze_text of both analyzers and for each     *)
(* element analyze_batch passes.                                            *)
C14_ClassifierReceivesFirst512 ==
    /\ \A k \in DOMAIN call :
           ~Blank(call[k].arg) => call[k].passed = <<First512(call[k].arg.chars)>>
    /\ \A c \in DOMAIN chunks : \A k \in DOMAIN chunks[c].passed :
           LET arg == texts[chunks[c].start + k]
           IN  ~Blank(arg) => chunks[c].passed[k] = First512(arg.chars)

(* analyze_batch has passed on a text of 513 characters after a shorter one *)
C14_Witness ==
    /\ pc = "batch_done"
    /\ \E c \in DOMAIN chunks :
           /\ Len(chunks[c].passed) = 2
           /\ chunks[c].passed[1] = <<"a">>
           /\ Len(texts[chunks[c].start + 2].chars) = MaxLength + 1
           /\ Len(chunks[c].passed[2]) = MaxLength

----------------------------------------------------------------------------
(* C15: analyze_articles never changes its input: the input list keeps its  *)
(* length and its elements, and every input record keeps exactly the keys   *)
(* and values it had.                                                       *)
C15_InputUnchanged == [][articles' = articles]_vars

(* a record has been annotated, so the output differs from the input *)
C15_Witness ==
    /\ pc = "done"
    /\ Len(articles) = 2
    /\ \A i \in 1..2 : /\ AnalysisKey \in DOMAIN analyzed_articles[i]
                        /\ AnalysisKey \notin DOMAIN articles[i]
                        /\ "overall" \in DOMAIN SubMap(i)

----------------------------------------------------------------------------
(* C16: every output record of analyze_articles contains every key of its   *)
(* input record with the value the input record has for it, whatever keys   *)
(* the input record has, also when it carries the annotation of an earlier  *)
(* pass of the same or of the other analyzer.                               *)
C16_InputKeysKept ==
    \A i \in 1..Len(analyzed_articles) :
        \A k \in DOMAIN articles[i] :
            /\ k \in DOMAIN analyzed_articles[i]
            /\ analyzed_articles[i][k] = articles[i][k]

----------------------------------------------------------------------------
(* Vocabulary of the properties about analyze_batch *)

(* the classifier raised on chunk c *)
ChunkFailed(c) == \E k \in DOMAIN chunks[c].passed : ~model_fn[chunks[c].passed[k]].ok

(* the chunks that hold the text at index i (counted from 1) *)
ChunksOf(i) ==
    {c \in DOMAIN chunks : chunks[c].start < i /\ i <= chunks[c].start + Len(chunks[c].passed)}

(* what the classifier is given for a text: "" for a blank one *)
Cleaned(arg) == IF Blank(arg) THEN <<>> ELSE First512(arg.chars)

----------------------------------------------------------------------------
(* C17: for a classifier whose output is a function of the text (and which  *)
(* may raise on particular texts), analyze_batch returns the same result    *)
(* list for any two batch sizes b1, b2 >= 1.                                *)
C17_ChunkingIrrelevant ==
    pc = "batch_done" => \A k \in DOMAIN prev : prev[k].results = results

----------------------------------------------------------------------------
(* C18: in analyze_batch with batch_size >= 1, when the classifier raises   *)
(* on a chunk every text of that chunk gets {ERROR, 0}, the later chunks    *)
(* are still processed, and the returned list has exactly one result per    *)
(* input text, the result at index i being that of texts[i].                *)
C18_FailedChunkIsolated ==
    /\ batch_size >= 1
    /\ \A c \in DOMAIN chunks :
           /\ chunks[c].start = (c - 1) * batch_size
           /\ Len(chunks[c].passed) =
                  (IF c * batch_size < Len(texts) THEN batch_size
                   ELSE Len(texts) - (c - 1) * batch_size)
           /\ Len(results) >= chunks[c].start + Len(chunks[c].passed)
           /\ ChunkFailed(c) =>
                  \A k \in DOMAIN chunks[c].passed :
                      results[chunks[c].start + k] = [label |-> "ERROR", score |-> 0]
    /\ pc = "batch_done" =>
           /\ Len(results) = Len(texts)
           /\ \A i \in 1..Len(texts) :
                  /\ Cardinality(ChunksOf(i)) = 1
                  /\ \A c \in ChunksOf(i) :
                         ~ChunkFailed(c) =>
                             Reports("sentiment", results[i], model_fn[Cleaned(texts[i])])

(* analyze_batch has returned after the classifier raised on the first of   *)
(* two chunks, because of the second text, and answered on the second chunk *)
C18_Witness ==
    /\ pc = "batch_done"
    /\ batch_size = 2
    /\ Len(texts) = 3
    /\ Len(chunks) = 2
    /\ ChunkFailed(1) /\ ~ChunkFailed(2)
    /\ model_fn[Cleaned(texts[1])].ok
    /\ results[1].label = "ERROR"
    /\ results[2].label = "ERROR"
    /\ results[3].label = "NEGATIVE"

----------------------------------------------------------------------------
(* the place of a requested field in the list of requested fields *)
FieldPlace(f) == CHOOSE j \in DOMAIN fields : fields[j] = f

(* C19: processing is sequential in input order.  In analyze_articles the   *)
(* classifier invocations of record i all come before those of record i+1,  *)
(* and within a record they follow the order of the requested fields; in    *)
(* analyze_batch chunk k is classified before chunk k+1; the output list of *)
(* analyze_articles is as long as the input and holds at position i the     *)
(* annotated copy of input record i.                                        *)
C19_InputOrder ==
    /\ \A a, b \in DOMAIN calls :
           a < b =>
               \/ calls[a].rec < calls[b].rec
               \/ /\ calls[a].rec = calls[b].rec
                  /\ FieldPlace(calls[a].field) < FieldPlace(calls[b].field)
    /\ \A c \in DOMAIN chunks :
           /\ chunks[c].start = (c - 1) * batch_size
           /\ \A k \in DOMAIN chunks[c].passed :
                  chunks[c].passed[k] = Cleaned(texts[chunks[c].start + k])
    /\ pc \in {"stats", "done"} => Len(analyzed_articles) = Len(articles)
    /\ \A i \in 1..Len(analyzed_articles) :
           /\ DOMAIN analyzed_articles[i] = DOMAIN articles[i] \cup {AnalysisKey}
           /\ \A k \in DOMAIN articles[i] : analyzed_articles[i][k] = articles[i][k]
           /\ \A k \in DOMAIN calls :
                  (calls[k].rec = i /\ calls[k].field # "overall") =>
                      SubMap(i)[calls[k].field] = calls[k].result

(* analyze_articles has returned on two different records, after two        *)
(* classifier invocations for the first and one for the second              *)
C19_Witness ==
    /\ pc = "done"
    /\ fields = <<"title", "description">>
    /\ Len(analyzed_articles) = 2
    /\ articles[1] # articles[2]
    /\ Len(calls) = 3
    /\ calls[1].rec = 1 /\ calls[1].field = "title"
    /\ calls[2].rec = 1 /\ calls[2].field = "description"
    /\ calls[3].rec = 2 /\ calls[3].field = "title"

----------------------------------------------------------------------------
(* the report files the driver that runs writes *)
FilesOf(name) ==
    IF name = "sentiment" THEN {"sentiment_analysis/analyzed_articles.json"}
    ELSE IF name = "emotion" THEN {"emotion_analysis/analyzed_articles.json"}
    ELSE {"combined_analysis/sentiment_emotion_analysis.json",
          "combined_analysis/analysis_summary.txt"}

(* C20: a run of a driver that fails at any step (missing input file, an    *)
(* exception while analyzing, computing or printing the statistics, or      *)
(* while writing) leaves no results file written; after a run report files  *)
(* exist only if the run completed, and then the complete report is there.  *)
C20_FailedRunLeavesNoFile ==
    /\ pc \in {"returned", "failed"} => \A f \in ReportFiles : files[f] = "absent"
    /\ pc = "finished" => \A f \in FilesOf(driver.name) : files[f] = "complete"

----------------------------------------------------------------------------
(* the fixed emotion categories *)
Seven == {"anger", "disgust", "fear", "joy", "neutral", "sadness", "surprise"}

(* every answer of the classifier so far has the seven labels *)
SevenLabelClassifier ==
    /\ \A k \in DOMAIN calls :
           \A j \in DOMAIN calls[k].outputs :
               (analyzer = "emotion" /\ calls[k].outputs[j].ok) =>
                   DOMAIN calls[k].outputs[j].scores = Seven
    /\ \A k \in DOMAIN call :
           \A j \in DOMAIN call[k].outputs :
               (call[k].an = "emotion" /\ call[k].outputs[j].ok) =>
                   DOMAIN call[k].outputs[j].scores = Seven

(* C21: with a classifier that answers with the seven labels, every         *)
(* per-field emotion result (classified, placeholder of a blank text or     *)
(* fallback of a failure), every overall result apart from dominant_emotion *)
(* and dominant_score, and average_emotions of every non-empty statistics   *)
(* result have exactly the keys anger, disgust, fear, joy, neutral,         *)
(* sadness, surprise.                                                       *)
C21_SevenCategories ==
    SevenLabelClassifier =>
        /\ \A k \in DOMAIN call :
               call[k].an = "emotion" => DOMAIN call[k].result = Seven
        /\ analyzer = "emotion" =>
               /\ \A k \in DOMAIN calls : DOMAIN calls[k].result = Seven
               /\ \A i \in 1..Len(analyzed_articles) :
                      /\ \A f \in DOMAIN SubMap(i) \ {"overall"} : DOMAIN SubMap(i)[f] = Seven
                      /\ HasOverall(i) =>
                             DOMAIN SubMap(i)["overall"] \ {"dominant_emotion", "dominant_score"}
                                 = Seven
               /\ (pc = "done" /\ DOMAIN stats # {}) =>
                      DOMAIN stats.average_emotions = Seven

(* the emotion statistics of two records are there: the classifier answered *)
(* with seven labels on the first and raised on the second                  *)
C21_Witness ==
    /\ analyzer = "emotion"
    /\ pc = "done"
    /\ SevenLabelClassifier
    /\ Len(analyzed_articles) = 2
    /\ Len(calls) = 2
    /\ calls[1].rec = 1 /\ calls[1].ok
    /\ calls[2].rec = 2 /\ ~calls[2].ok
    /\ DOMAIN stats # {}
    /\ stats.total_analyzed = 2
    /\ HasOverall(1) /\ HasOverall(2)

----------------------------------------------------------------------------
(* C22: in SentimentAnalyzer.analyze_articles followed by                   *)
(* get_sentiment_statistics, with a classifier that answers POSITIVE or     *)
(* NEGATIVE only, no per-field or overall label is NEUTRAL, every overall   *)
(* label is POSITIVE, NEGATIVE or ERROR, and the neutral count of the       *)
(* statistics is the number of records whose overall label is ERROR.        *)
C22_NeutralCountsErrors ==
    analyzer = "sentiment" =>
        /\ \A k \in DOMAIN calls : calls[k].result.label \in {"POSITIVE", "NEGATIVE", "ERROR"}
        /\ \A i \in 1..Len(analyzed_articles) :
               \A f \in DOMAIN SubMap(i) :
                   SubMap(i)[f].label \in {"POSITIVE", "NEGATIVE", "ERROR"}
        /\ (pc = "done" /\ DOMAIN stats # {}) =>
               stats.neutral =
                   Cardinality({i \in 1..Len(analyzed_articles) :
                                   HasOverall(i) /\ SubMap(i)["overall"].label = "ERROR"})

(* sentiment statistics over a positive, a negative and a failed record,    *)
(* beside a record whose title is blank                                     *)
C22_Witness ==
    /\ analyzer = "sentiment"
    /\ pc = "done"
    /\ Len(analyzed_articles) = 4
    /\ DOMAIN stats # {}
    /\ stats.total_analyzed = 3
    /\ stats.positive = 1
    /\ stats.negative = 1
    /\ stats.neutral = 1
    /\ \E i \in 1..4 : "title" \in DOMAIN articles[i] /\ ~HasOverall(i)

----------------------------------------------------------------------------
(* the classifier raises on no text it can be given *)
NeverFails == \A t \in DOMAIN model_fn : model_fn[t].ok

(* C23: with a classifier whose answer is a function of the text and which  *)
(* never raises, analyze_batch(texts)[i] equals analyze_text(texts[i]) for  *)
(* every list of texts (empty, whitespace-only and over-long texts          *)
(* included) and every index i, and analyze_batch gives the classifier no   *)
(* text for which analyze_text would not invoke it.                         *)
C23_BatchAgreesWithText ==
    (pc = "batch_done" /\ NeverFails) =>
        /\ Len(results) = Len(texts)
        /\ \A i \in 1..Len(texts) :
               results[i] \in SentimentAnalyzeText(AsText(texts[i]), model_fn[Clean(texts[i])])
        /\ \A c \in DOMAIN chunks : \A k \in DOMAIN chunks[c].passed :
               ClassifierInputs(AsText(texts[chunks[c].start + k])) # <<>>

----------------------------------------------------------------------------
(* the handlers of a kind that logger n carries *)
HandlersOfKind(n, kind) == {i \in DOMAIN loggers[n].handlers : loggers[n].handlers[i].kind = kind}

(* C24: after any sequence of setup_logger calls every named logger carries *)
(* only the handlers the first call for its name installed, at most one     *)
(* file handler and at most one console handler (later calls for the name   *)
(* add none), so that no log message is written twice to the same           *)
(* destination.                                                             *)
C24_NoMessageTwice ==
    /\ \A n \in DOMAIN loggers :
           /\ Cardinality(HandlersOfKind(n, "file")) <= 1
           /\ Cardinality(HandlersOfKind(n, "console")) <= 1
           /\ Len(loggers[n].handlers) <= 2
    /\ \A i, j \in DOMAIN emitted : emitted[i] = emitted[j] => i = j

====
